---------------------------- MODULE Spec2Model ----------------------------
(***************************************************************************)
(* zap2telegram: a zapcore.Core that forwards log entries to Telegram      *)
(* chats.  The model follows src/telegram.go (the Telegram client and the  *)
(* TelegramCore) and src/unnamed/part_000 (the construction options).      *)
(*                                                                         *)
(* External collaborators are modelled by their contract only:            *)
(*   - botAPI.Send succeeds or fails, chosen nondeterministically;         *)
(*   - tgbotapi.NewBotAPI succeeds or fails, chosen nondeterministically;  *)
(*   - zap.NewAtomicLevelAt(l).Enabled(x) is x >= l on zapcore's numbers.  *)
(* WithParseMode and WithFormatter only set the text of a message and are  *)
(* left out: the text of a message is not part of the state.               *)
(***************************************************************************)
EXTENDS Integers, Sequences, FiniteSets, TLC

VARIABLES
    botAccessToken,  \* argument of NewTelegramCore
    chatIDs,         \* argument of NewTelegramCore
    opts,            \* argument of NewTelegramCore: the option list
    ctorPc,          \* position of NewTelegramCore: "call", "opts", "returned", "failed"
    optIdx,          \* index of the next option the loop of NewTelegramCore applies
    ctorRet,         \* what NewTelegramCore returned: [core, err]
    cores,           \* the TelegramCore structs: cores[1] is c, the others come from With
    telegramClient,  \* the *telegramClient all cores share, or NoClient
    chans,           \* the channels made by WithQueue: [cap, buf]
    loops,           \* the goroutines started by WithQueue (consumeEntriesQueue)
    ctxDone,         \* whether the context handed to WithQueue is cancelled
    arrays,          \* the backing arrays of the inheritedFields slices
    createdFields,   \* history: the inherited fields each core had when it was made
    writes,          \* the Write calls, one per entry: caller, resolved fields, sends
    syncs            \* the Sync calls

vars ==
    << botAccessToken, chatIDs, opts, ctorPc, optIdx, ctorRet, cores,
       telegramClient, chans, loops, ctxDone, arrays, createdFields,
       writes, syncs >>

-----------------------------------------------------------------------------
(* Bounds of the model *)

MaxOpts ==
    2

MaxCores ==
    5

MaxWrites ==
    2

MaxSyncs ==
    1

-----------------------------------------------------------------------------
(* zapcore levels (their numeric values) and the package's tables *)

DebugLevel ==
    -1

InfoLevel ==
    0

WarnLevel ==
    1

ErrorLevel ==
    2

PanicLevel ==
    4

FatalLevel ==
    5

defaultLevel ==
    WarnLevel

defaultAsyncOpt ==
    TRUE

defaultQueueOpt ==
    FALSE

defaultDisableNotification ==
    FALSE

AllLevels ==
    << DebugLevel, InfoLevel, WarnLevel, ErrorLevel, FatalLevel, PanicLevel >>

Levels ==
    { AllLevels[i] : i \in 1..Len(AllLevels) }

NoClient ==
    [ chatIDs |-> << >>, disableNotification |-> FALSE,
      enableNotificationOnLevels |-> << >>, made |-> FALSE ]

NoRet ==
    [ core |-> 0, err |-> "none" ]

\* getLevelThreshold: AllLevels[i:] for the first i with AllLevels[i] = l, else empty.
getLevelThreshold(l) ==
    IF \E i \in 1..Len(AllLevels) : AllLevels[i] = l
    THEN LET i == CHOOSE j \in 1..Len(AllLevels) :
                      /\ AllLevels[j] = l
                      /\ \A k \in 1..(j-1) : AllLevels[k] # l
         IN  SubSeq(AllLevels, i, Len(AllLevels))
    ELSE << >>

-----------------------------------------------------------------------------
(* Options.  An option is a function on the core under construction; here  *)
(* it maps h = [c, client, chans, loops, err] to the same record after the *)
(* option ran.  h.c is *h, h.client is *h.telegramClient.                  *)

Opt(op, l, lv, n) ==
    [ op |-> op, l |-> l, levels |-> lv, size |-> n ]

\* h.levels is assigned; TelegramCore.Enabled reads h.enabler, which no option sets.
WithLevel(h, l) ==
    [ h EXCEPT !.c.levels = getLevelThreshold(l) ]

WithStrongLevel(h, l) ==
    [ h EXCEPT !.c.levels = << l >> ]

WithDisabledNotification(h) ==
    [ h EXCEPT !.client.disableNotification = TRUE ]

\* A plausible slip: the default is not switched off.
WithNotificationOn_DefaultKept(h, levels) ==
    [ h EXCEPT !.client.enableNotificationOnLevels = levels ]

WithNotificationOn(h, levels) ==
    [ h EXCEPT !.client.disableNotification = TRUE,
               !.client.enableNotificationOnLevels = levels ]

WithoutAsyncOpt(h) ==
    IF h.c.queue
    THEN [ h EXCEPT !.err = "ErrAsyncOpt" ]
    ELSE [ h EXCEPT !.c.async = FALSE ]

\* make(chan chanEntry, queueSize) and go h.consumeEntriesQueue(ctx): the goroutine
\* is created here and reads *h only when it starts to run (LoopStart).
\* A plausible slip: WithQueue leaves the async flag as it finds it.
WithQueue_AsyncKept(h, interval, queueSize) ==
    [ h EXCEPT !.c.queue = TRUE,
               !.c.intervalQueue = interval,
               !.c.entriesChan = Len(h.chans) + 1,
               !.chans = Append(@, [ cap |-> queueSize, buf |-> << >> ]),
               !.loops = Append(@, [ pc |-> "spawned", ch |-> 0, interval |-> 0,
                                     final |-> FALSE, cur |-> 0,
                                     pending |-> { } ]) ]

WithQueue(h, interval, queueSize) ==
    [ h EXCEPT !.c.async = FALSE,
               !.c.queue = TRUE,
               !.c.intervalQueue = interval,
               !.c.entriesChan = Len(h.chans) + 1,
               !.chans = Append(@, [ cap |-> queueSize, buf |-> << >> ]),
               !.loops = Append(@, [ pc |-> "spawned", ch |-> 0, interval |-> 0,
                                     final |-> FALSE, cur |-> 0,
                                     pending |-> { } ]) ]

flushInterval ==
    10

ApplyOpt(h, o) ==
    CASE o.op = "WithLevel"                -> WithLevel(h, o.l)
      [] o.op = "WithStrongLevel"          -> WithStrongLevel(h, o.l)
      [] o.op = "WithDisabledNotification" -> WithDisabledNotification(h)
      [] o.op = "WithNotificationOn"       -> WithNotificationOn(h, o.levels)
      [] o.op = "WithoutAsyncOpt"          -> WithoutAsyncOpt(h)
      [] o.op = "WithQueue"                -> WithQueue(h, flushInterval, o.size)

-----------------------------------------------------------------------------
(* NewTelegramCore *)

newTelegramClient(ids) ==
    [ chatIDs |-> ids, disableNotification |-> defaultDisableNotification,
      enableNotificationOnLevels |-> << >>, made |-> TRUE ]

\* inheritedFields is a slice [arr, len, cap]; arr = 0 is the empty literal's base.
NewCore ==
    [ inheritedFields |-> [ arr |-> 0, len |-> 0, cap |-> 0 ],
      levels          |-> << >>,
      enabler         |-> defaultLevel,
      async           |-> defaultAsyncOpt,
      queue           |-> defaultQueueOpt,
      intervalQueue   |-> 0,
      entriesChan     |-> 0 ]

CtorFail(e) ==
    /\ ctorPc' = "failed"
    /\ ctorRet' = [ core |-> 0, err |-> e ]

\* A plausible slip: the destination list is not checked.
ArgError_NoChatIDsCheck(token, ids) ==
    IF token = "" THEN "ErrBotAccessToken" ELSE "nil"

\* The argument checks (lines 137-141).
ArgError(token, ids) ==
    IF token = "" THEN "ErrBotAccessToken"
    ELSE IF Len(ids) = 0 THEN "ErrChatIDs"
    ELSE "nil"

\* The checks, newTelegramClient and the construction of c (lines 137-152).
NewTelegramCore ==
    /\ ctorPc = "call"
    /\ IF ArgError(botAccessToken, chatIDs) # "nil"
       THEN /\ CtorFail(ArgError(botAccessToken, chatIDs))
            /\ UNCHANGED << cores, telegramClient, createdFields >>
       ELSE \E botOK \in BOOLEAN :
              IF ~botOK
              THEN /\ CtorFail("ErrNewBotAPI")
                   /\ UNCHANGED << cores, telegramClient, createdFields >>
              ELSE /\ ctorPc' = "opts"
                   /\ cores' = << NewCore >>
                   /\ createdFields' = << [ parent |-> 0, supplied |-> << >>,
                                            before |-> << >>, fields |-> << >> ] >>
                   /\ telegramClient' = newTelegramClient(chatIDs)
                   /\ UNCHANGED ctorRet
    /\ UNCHANGED << botAccessToken, chatIDs, opts, optIdx, chans, loops,
                    ctxDone, arrays, writes, syncs >>

\* One turn of the loop over opts (lines 154-158).
ApplyOption ==
    /\ ctorPc = "opts"
    /\ optIdx <= Len(opts)
    /\ LET h == ApplyOpt([ c |-> cores[1], client |-> telegramClient,
                           chans |-> chans, loops |-> loops, err |-> "nil" ],
                         opts[optIdx])
       IN  /\ cores' = [ cores EXCEPT ![1] = h.c ]
           /\ telegramClient' = h.client
           /\ chans' = h.chans
           /\ loops' = h.loops
           /\ IF h.err # "nil"
              THEN /\ CtorFail(h.err)
                   /\ UNCHANGED optIdx
              ELSE /\ optIdx' = optIdx + 1
                   /\ UNCHANGED << ctorPc, ctorRet >>
    /\ UNCHANGED << botAccessToken, chatIDs, opts, ctxDone, arrays,
                    createdFields, writes, syncs >>

\* return c, nil (line 159).
ReturnCore ==
    /\ ctorPc = "opts"
    /\ optIdx > Len(opts)
    /\ ctorPc' = "returned"
    /\ ctorRet' = [ core |-> 1, err |-> "nil" ]
    /\ UNCHANGED << botAccessToken, chatIDs, opts, optIdx, cores, telegramClient,
                    chans, loops, ctxDone, arrays, createdFields, writes, syncs >>

\* The goroutine of WithQueue starts to run: h.consumeEntriesQueue(ctx) copies *h
\* into the value receiver and makes the ticker.
LoopStart(k) ==
    /\ loops[k].pc = "spawned"
    /\ loops' = [ loops EXCEPT ![k].pc = "select",
                               ![k].ch = cores[1].entriesChan,
                               ![k].interval = cores[1].intervalQueue ]
    /\ UNCHANGED << botAccessToken, chatIDs, opts, ctorPc, optIdx, ctorRet, cores,
                    telegramClient, chans, ctxDone, arrays, createdFields,
                    writes, syncs >>

-----------------------------------------------------------------------------
(* Enabled *)

\* c.enabler.Enabled(l) with enabler = zap.NewAtomicLevelAt(level): l >= level.
Enabled(h, l) ==
    l >= cores[h].enabler

-----------------------------------------------------------------------------
(* Slices: append as the Go runtime performs it (go 1.18 growslice) *)

\* unsafe.Sizeof(zapcore.Field{}): Key, Type, Integer, String, Interface.
FieldSize ==
    64

\* growslice doubles the capacity below this one.
growThreshold ==
    256

\* The allocator's size classes (bytes); above the last one a page multiple is used.
SizeClasses ==
    { 8, 16, 24, 32, 48, 64, 80, 96, 112, 128, 144, 160, 176, 192, 208, 224, 240,
      256, 288, 320, 352, 384, 416, 448, 480, 512, 576, 640, 704, 768, 896, 1024,
      1152, 1280, 1408, 1536, 1792, 2048, 2304, 2688, 3072, 3200, 3456, 4096,
      4864, 5120, 5376, 6144, 6528, 6784, 6912, 8192, 9472, 9728, 10240, 10880,
      12288, 13568, 14336, 16384, 18432, 19072, 20480, 21760, 24576, 27264,
      28672, 32768 }

pageSize ==
    8192

roundupsize(size) ==
    IF size <= 32768
    THEN CHOOSE c \in SizeClasses :
             /\ c >= size
             /\ \A d \in SizeClasses : d >= size => c <= d
    ELSE ((size + pageSize - 1) \div pageSize) * pageSize

RECURSIVE GrowSmooth(_, _)
GrowSmooth(newcap, needed) ==
    IF newcap >= needed
    THEN newcap
    ELSE GrowSmooth(newcap + ((newcap + 3 * growThreshold) \div 4), needed)

\* The capacity of the array append allocates when oldCap < needed.
GrowCap(oldCap, needed) ==
    LET newcap == IF needed > 2 * oldCap THEN needed
                  ELSE IF oldCap < growThreshold THEN 2 * oldCap
                  ELSE GrowSmooth(oldCap, needed)
    IN  roundupsize(newcap * FieldSize) \div FieldSize

\* The elements a slice s shows, read from the heap arrs.
SliceRead(arrs, s) ==
    [ i \in 1..s.len |-> arrs[s.arr][i] ]

\* append(s, xs...): in place when the capacity allows, else into a new array.
\* Returns the heap and the slice.
AppendSlice(arrs, s, xs) ==
    LET n == s.len + Len(xs)
    IN  IF Len(xs) = 0
        THEN [ arrays |-> arrs, slice |-> s ]
        ELSE IF n <= s.cap
        THEN [ arrays |-> [ arrs EXCEPT ![s.arr] =
                              [ i \in 1..s.cap |->
                                  IF i > s.len /\ i <= n THEN xs[i - s.len]
                                  ELSE @[i] ] ],
               slice  |-> [ s EXCEPT !.len = n ] ]
        ELSE LET newcap == GrowCap(s.cap, n)
                 old    == SliceRead(arrs, s)
             IN  [ arrays |-> Append(arrs,
                                [ i \in 1..newcap |->
                                    IF i <= s.len THEN old[i]
                                    ELSE IF i <= n THEN xs[i - s.len]
                                    ELSE 0 ]),
                   slice  |-> [ arr |-> Len(arrs) + 1, len |-> n, cap |-> newcap ] ]

-----------------------------------------------------------------------------
(* With *)

\* cloned := *c; cloned.inheritedFields = append(cloned.inheritedFields, fields...)
\* createdFields records, for the formulas, what the new core was made of.
With(h, fields, maxCores) ==
    /\ ctorPc = "returned"
    /\ Len(cores) < maxCores
    /\ LET r == AppendSlice(arrays, cores[h].inheritedFields, fields)
       IN  /\ arrays' = r.arrays
           /\ cores' = Append(cores, [ cores[h] EXCEPT !.inheritedFields = r.slice ])
           /\ createdFields' = Append(createdFields,
                                  [ parent   |-> h,
                                    supplied |-> fields,
                                    before   |-> SliceRead(arrays, cores[h].inheritedFields),
                                    fields   |-> SliceRead(r.arrays, r.slice) ])
    /\ UNCHANGED << botAccessToken, chatIDs, opts, ctorPc, optIdx, ctorRet,
                    telegramClient, chans, loops, ctxDone, writes, syncs >>

-----------------------------------------------------------------------------
(* sendMessage *)

\* msg.DisableNotification for an entry of level l (lines 59-67).
DisableNotification(client, l) ==
    IF /\ Len(client.enableNotificationOnLevels) > 0
       /\ \E i \in 1..Len(client.enableNotificationOnLevels) :
              client.enableNotificationOnLevels[i] = l
    THEN FALSE
    ELSE client.disableNotification

\* The loop over chatIDs from index i on; ok[i] is the outcome of botAPI.Send.
\* Returns the messages handed to botAPI.Send, in order, and whether an error
\* was returned.
RECURSIVE SendLoop(_, _, _, _)
SendLoop(client, l, ok, i) ==
    IF i > Len(client.chatIDs)
    THEN [ sends |-> << >>, err |-> FALSE ]
    ELSE LET msg == [ chat   |-> client.chatIDs[i],
                      notify |-> ~DisableNotification(client, l),
                      ok     |-> ok[i] ]
         IN  IF ~ok[i]
             THEN [ sends |-> << msg >>, err |-> TRUE ]
             ELSE LET rest == SendLoop(client, l, ok, i + 1)
                  IN  [ sends |-> << msg >> \o rest.sends, err |-> rest.err ]

sendMessage(client, l, ok) ==
    SendLoop(client, l, ok, 1)

Outcomes ==
    [ 1..Len(telegramClient.chatIDs) -> BOOLEAN ]

\* writes[e] after one more sendMessage call for entry e with result r.
Delivered(w, r) ==
    [ w EXCEPT !.sm = "done", !.calls = @ + 1, !.sends = @ \o r.sends,
               !.smErr = r.err ]

-----------------------------------------------------------------------------
(* Write *)

\* A plausible slip: the inherited fields first.
ResolveFields_InheritedFirst(fields, inherited) ==
    inherited \o fields

\* entryFields := append(fields, c.inheritedFields...) (line 172); the caller's
\* slice is taken to have no spare capacity, so the result is a fresh array.
ResolveFields(fields, inherited) ==
    fields \o inherited

ModeOf(c) ==
    IF c.async THEN "async" ELSE IF c.queue THEN "queued" ELSE "sync"

\* Write up to its first blocking point: the fields are resolved, then
\*   async:  the goroutine is spawned and Write returns nil;
\*   queued: the caller is at the channel send (Enqueue);
\*   sync:   the caller is in sendMessage (WriteSend).
\* `checked` is history for the formulas: whether the call came from the
\* CheckedEntry that Check added the core to.
WriteEntry(h, l, fields) ==
    LET c == cores[h]
        entryFields == ResolveFields(fields, SliceRead(arrays, c.inheritedFields))
    IN  [ h |-> h, level |-> l, callFields |-> fields,
          fields |-> entryFields, mode |-> ModeOf(c),
          ch |-> IF ModeOf(c) = "queued" THEN c.entriesChan ELSE 0,
          pc |-> CASE ModeOf(c) = "async"  -> "returned"
                   [] ModeOf(c) = "queued" -> "enqueue"
                   [] OTHER                -> "sending",
          ret |-> IF ModeOf(c) = "async" THEN "nil" ELSE "none",
          sm |-> IF ModeOf(c) = "async" THEN "spawned" ELSE "none",
          calls |-> 0, sends |-> << >>, smErr |-> FALSE, enqNo |-> 0,
          checked |-> FALSE ]

WriteCall(h, l, fields, maxWrites) ==
    /\ ctorPc = "returned"
    /\ Len(writes) < maxWrites
    /\ writes' = Append(writes, WriteEntry(h, l, fields))
    /\ UNCHANGED << botAccessToken, chatIDs, opts, ctorPc, optIdx, ctorRet, cores,
                    telegramClient, chans, loops, ctxDone, arrays, createdFields,
                    syncs >>

\* A plausible slip: Check adds the core whatever the level.
Check_Always(h, l) ==
    TRUE

\* Check: whether the core is added to the CheckedEntry,
\*   if c.Enabled(entry.Level) { return checked.AddCore(entry, c) }; return checked
Check(h, l) ==
    Enabled(h, l)

\* The logger's path: Check, and the CheckedEntry calls Write of the cores that
\* Check added to it.
CheckedWrite(h, l, fields, maxWrites) ==
    /\ ctorPc = "returned"
    /\ Len(writes) < maxWrites
    /\ Check(h, l)
    /\ writes' = Append(writes, [ WriteEntry(h, l, fields) EXCEPT !.checked = TRUE ])
    /\ UNCHANGED << botAccessToken, chatIDs, opts, ctorPc, optIdx, ctorRet, cores,
                    telegramClient, chans, loops, ctxDone, arrays, createdFields,
                    syncs >>

\* A plausible slip: the error of sendMessage is dropped in sync mode too.
SyncReturn_Swallowed(r) ==
    "nil"

\* The value Write returns in sync mode for the result r of sendMessage.
SyncReturn(r) ==
    IF r.err THEN "err" ELSE "nil"

\* sync mode: sendMessage on the caller's thread, then the return (lines 181-185).
WriteSend(e) ==
    /\ writes[e].pc = "sending"
    /\ \E ok \in Outcomes :
         LET r == sendMessage(telegramClient, writes[e].level, ok)
         IN  writes' = [ writes EXCEPT ![e] =
                           [ Delivered(@, r) EXCEPT !.pc = "returned",
                                                    !.ret = SyncReturn(r) ] ]
    /\ UNCHANGED << botAccessToken, chatIDs, opts, ctorPc, optIdx, ctorRet, cores,
                    telegramClient, chans, loops, ctxDone, arrays, createdFields,
                    syncs >>

\* async mode: the goroutine of lines 174-176 runs; its error is dropped.
GoSend(e) ==
    /\ writes[e].sm = "spawned"
    /\ \E ok \in Outcomes :
         LET r == sendMessage(telegramClient, writes[e].level, ok)
         IN  writes' = [ writes EXCEPT ![e] = Delivered(@, r) ]
    /\ UNCHANGED << botAccessToken, chatIDs, opts, ctorPc, optIdx, ctorRet, cores,
                    telegramClient, chans, loops, ctxDone, arrays, createdFields,
                    syncs >>

\* A plausible slip: a queue that takes every send, whatever its capacity.
HasRoom_Unbounded(c) ==
    TRUE

\* A send on the buffered channel c = make(chan chanEntry, queueSize) proceeds
\* only while the buffer holds fewer than queueSize entries.  (With queueSize 0
\* it would need a receiver waiting in <-h.entriesChan, and no drainer gets
\* there, because len of an unbuffered channel is always 0.)
HasRoom(c) ==
    Len(c.buf) < c.cap

\* The number of channel sends on ch that have completed.
SendsDone(ch) ==
    Cardinality({ x \in 1..Len(writes) : writes[x].ch = ch /\ writes[x].enqNo > 0 })

\* queued mode: c.entriesChan <- chanEntry{entry, entryFields} goes through once
\* the buffer has room, and Write returns nil.  A Sync in progress on the same
\* channel is no longer quiet.  `enqNo` is history for the formulas: the rank of
\* this send among the sends on the channel.
Enqueue(e) ==
    /\ writes[e].pc = "enqueue"
    /\ HasRoom(chans[writes[e].ch])
    /\ chans' = [ chans EXCEPT ![writes[e].ch].buf = Append(@, e) ]
    /\ writes' = [ writes EXCEPT ![e].pc = "returned", ![e].ret = "nil",
                                 ![e].sm = "queued",
                                 ![e].enqNo = SendsDone(writes[e].ch) + 1 ]
    /\ syncs' = [ s \in 1..Len(syncs) |->
                    IF syncs[s].ch = writes[e].ch
                    THEN [ syncs[s] EXCEPT !.quiet = FALSE ]
                    ELSE syncs[s] ]
    /\ UNCHANGED << botAccessToken, chatIDs, opts, ctorPc, optIdx, ctorRet, cores,
                    telegramClient, loops, ctxDone, arrays, createdFields >>

-----------------------------------------------------------------------------
(* handleNewQueueEntries, run by the drain loop and by Sync.  A drainer d  *)
(* is [pc, ch, cur, ...]: "check" evaluates len(h.entriesChan) > 0, "recv" *)
(* is the receive, "send" is sendMessage for the received entry cur.       *)

\* for len(h.entriesChan) > 0: into the body, or out of the loop to pc `out`.
DrainCheck(d, out) ==
    IF Len(chans[d.ch].buf) > 0
    THEN [ d EXCEPT !.pc = "recv" ]
    ELSE [ d EXCEPT !.pc = out ]

\* chanEntry := <-h.entriesChan: blocks while the buffer is empty.
CanRecv(d) ==
    /\ d.pc = "recv"
    /\ Len(chans[d.ch].buf) > 0

AfterRecv(d) ==
    [ d EXCEPT !.pc = "send", !.cur = Head(chans[d.ch].buf) ]

Dequeue(d) ==
    /\ chans' = [ chans EXCEPT ![d.ch].buf = Tail(@) ]
    /\ writes' = [ writes EXCEPT ![Head(chans[d.ch].buf)].sm = "dequeued" ]

\* A plausible slip: the drain gives up after a send instead of going on.
AfterSend_StopsDrain(d) ==
    [ d EXCEPT !.pc = "stopped", !.cur = 0 ]

\* _ = h.telegramClient.sendMessage(chanEntry.entry, chanEntry.fields)
AfterSend(d) ==
    [ d EXCEPT !.pc = "check", !.cur = 0 ]

DrainSend(d) ==
    \E ok \in Outcomes :
      LET r == sendMessage(telegramClient, writes[d.cur].level, ok)
      IN  writes' = [ writes EXCEPT ![d.cur] = Delivered(@, r) ]

-----------------------------------------------------------------------------
(* consumeEntriesQueue *)

Range(q) ==
    { q[i] : i \in 1..Len(q) }

\* case <-ticker.C
LoopTick(k) ==
    /\ loops[k].pc = "select"
    /\ loops' = [ loops EXCEPT ![k].pc = "check", ![k].final = FALSE ]
    /\ UNCHANGED << botAccessToken, chatIDs, opts, ctorPc, optIdx, ctorRet, cores,
                    telegramClient, chans, ctxDone, arrays, createdFields,
                    writes, syncs >>

\* case <-ctx.Done().  `pending` is history for the formulas: the entries in the
\* queue when the final drain begins.
LoopDone(k) ==
    /\ loops[k].pc = "select"
    /\ ctxDone
    /\ loops' = [ loops EXCEPT ![k].pc = "check", ![k].final = TRUE,
                               ![k].pending = Range(chans[loops[k].ch].buf) ]
    /\ UNCHANGED << botAccessToken, chatIDs, opts, ctorPc, optIdx, ctorRet, cores,
                    telegramClient, chans, ctxDone, arrays, createdFields,
                    writes, syncs >>

\* After the drain: back to the select, or return ctx.Err() after the final one.
LoopCheck(k) ==
    /\ loops[k].pc = "check"
    /\ loops' = [ loops EXCEPT ![k] =
                    DrainCheck(@, IF @.final THEN "stopped" ELSE "select") ]
    /\ UNCHANGED << botAccessToken, chatIDs, opts, ctorPc, optIdx, ctorRet, cores,
                    telegramClient, chans, ctxDone, arrays, createdFields,
                    writes, syncs >>

LoopRecv(k) ==
    /\ CanRecv(loops[k])
    /\ Dequeue(loops[k])
    /\ loops' = [ loops EXCEPT ![k] = AfterRecv(@) ]
    /\ UNCHANGED << botAccessToken, chatIDs, opts, ctorPc, optIdx, ctorRet, cores,
                    telegramClient, ctxDone, arrays, createdFields, syncs >>

LoopSend(k) ==
    /\ loops[k].pc = "send"
    /\ DrainSend(loops[k])
    /\ loops' = [ loops EXCEPT ![k] = AfterSend(@) ]
    /\ UNCHANGED << botAccessToken, chatIDs, opts, ctorPc, optIdx, ctorRet, cores,
                    telegramClient, chans, ctxDone, arrays, createdFields, syncs >>

\* The owner of the context cancels it.
Cancel ==
    /\ ~ctxDone
    /\ Len(loops) > 0
    /\ ctxDone' = TRUE
    /\ UNCHANGED << botAccessToken, chatIDs, opts, ctorPc, optIdx, ctorRet, cores,
                    telegramClient, chans, loops, arrays, createdFields,
                    writes, syncs >>

-----------------------------------------------------------------------------
(* Sync *)

\* The entries whose channel send on ch has completed.
Enqueued(ch) ==
    { e \in 1..Len(writes) :
        writes[e].ch = ch /\ writes[e].mode = "queued" /\ writes[e].pc = "returned" }

\* Sync is called: with c.queue it enters handleNewQueueEntries, else it returns
\* nil.  `before` and `quiet` are history for the formulas: the entries enqueued
\* before the call, and whether no producer has enqueued since.
SyncCall(h) ==
    /\ ctorPc = "returned"
    /\ Len(syncs) < MaxSyncs
    /\ syncs' = Append(syncs,
                  [ h |-> h, queue |-> cores[h].queue,
                    ch |-> IF cores[h].queue THEN cores[h].entriesChan ELSE 0,
                    pc |-> IF cores[h].queue THEN "check" ELSE "returned",
                    ret |-> IF cores[h].queue THEN "none" ELSE "nil",
                    cur |-> 0,
                    before |-> IF cores[h].queue
                               THEN Enqueued(cores[h].entriesChan) ELSE { },
                    quiet |-> TRUE ])
    /\ UNCHANGED << botAccessToken, chatIDs, opts, ctorPc, optIdx, ctorRet, cores,
                    telegramClient, chans, loops, ctxDone, arrays, createdFields,
                    writes >>

SyncCheck(s) ==
    /\ syncs[s].pc = "check"
    /\ syncs' = [ syncs EXCEPT ![s] =
                    [ DrainCheck(@, "returned") EXCEPT
                        !.ret = IF Len(chans[syncs[s].ch].buf) > 0 THEN "none"
                                ELSE "nil" ] ]
    /\ UNCHANGED << botAccessToken, chatIDs, opts, ctorPc, optIdx, ctorRet, cores,
                    telegramClient, chans, loops, ctxDone, arrays, createdFields,
                    writes >>

SyncRecv(s) ==
    /\ CanRecv(syncs[s])
    /\ Dequeue(syncs[s])
    /\ syncs' = [ syncs EXCEPT ![s] = AfterRecv(@) ]
    /\ UNCHANGED << botAccessToken, chatIDs, opts, ctorPc, optIdx, ctorRet, cores,
                    telegramClient, loops, ctxDone, arrays, createdFields >>

SyncSend(s) ==
    /\ syncs[s].pc = "send"
    /\ DrainSend(syncs[s])
    /\ syncs' = [ syncs EXCEPT ![s] = AfterSend(@) ]
    /\ UNCHANGED << botAccessToken, chatIDs, opts, ctorPc, optIdx, ctorRet, cores,
                    telegramClient, chans, loops, ctxDone, arrays, createdFields >>

-----------------------------------------------------------------------------
(* Inputs and specifications *)

SeqsUpTo(S, n) ==
    UNION { [ 1..k -> S ] : k \in 0..n }

NotifySets ==
    { << >>, << ErrorLevel >>, << WarnLevel, PanicLevel >> }

QueueSizes ==
    { 0, 1, 2 }

AllOptions ==
    { Opt("WithLevel", l, << >>, 0) : l \in Levels }
      \cup { Opt("WithStrongLevel", l, << >>, 0) : l \in Levels }
      \cup { Opt("WithDisabledNotification", 0, << >>, 0) }
      \cup { Opt("WithNotificationOn", 0, u, 0) : u \in NotifySets }
      \cup { Opt("WithoutAsyncOpt", 0, << >>, 0) }
      \cup { Opt("WithQueue", 0, << >>, n) : n \in QueueSizes }

InitWith(tokens, chatLists, optLists) ==
    /\ botAccessToken \in tokens
    /\ chatIDs \in chatLists
    /\ opts \in optLists
    /\ ctorPc = "call"
    /\ optIdx = 1
    /\ ctorRet = NoRet
    /\ cores = << >>
    /\ telegramClient = NoClient
    /\ chans = << >>
    /\ loops = << >>
    /\ ctxDone = FALSE
    /\ arrays = << >>
    /\ createdFields = << >>
    /\ writes = << >>
    /\ syncs = << >>

\* Construction under every option list of at most MaxOpts options.
InitCfg ==
    InitWith({ "", "token" }, { << >>, << 101 >>, << 101, 102 >> },
             SeqsUpTo(AllOptions, MaxOpts))

NextCfg ==
    \/ NewTelegramCore
    \/ ApplyOption
    \/ ReturnCore
    \/ \E k \in 1..Len(loops) : LoopStart(k)

SpecCfg ==
    InitCfg /\ [][NextCfg]_vars

\* The three delivery modes, each with two destinations.
RunOptLists ==
    { << >>,
      << Opt("WithoutAsyncOpt", 0, << >>, 0) >>,
      << Opt("WithQueue", 0, << >>, 1) >> }

Init ==
    InitWith({ "token" }, { << 101, 102 >> }, RunOptLists)

Construct ==
    \/ NewTelegramCore
    \/ ApplyOption
    \/ ReturnCore
    \/ \E k \in 1..Len(loops) : LoopStart(k)

Next ==
    \/ Construct
    \/ WriteCall(1, WarnLevel, << >>, MaxWrites)
    \/ \E e \in 1..Len(writes) : WriteSend(e)
    \/ \E e \in 1..Len(writes) : GoSend(e)
    \/ \E e \in 1..Len(writes) : Enqueue(e)
    \/ \E k \in 1..Len(loops) : LoopTick(k)
    \/ \E k \in 1..Len(loops) : LoopDone(k)
    \/ \E k \in 1..Len(loops) : LoopCheck(k)
    \/ \E k \in 1..Len(loops) : LoopRecv(k)
    \/ \E k \in 1..Len(loops) : LoopSend(k)
    \/ Cancel
    \/ SyncCall(1)
    \/ \E s \in 1..Len(syncs) : SyncCheck(s)
    \/ \E s \in 1..Len(syncs) : SyncRecv(s)
    \/ \E s \in 1..Len(syncs) : SyncSend(s)

Spec ==
    Init /\ [][Next]_vars

\* The scheduling the Go runtime gives the program of Spec: a goroutine that can
\* take its next step takes it (the constructor, a Write at its send, a drainer
\* at its length test, receive or send), and a select with both cases ready
\* picks each of them again and again, so a loop at the select with the context
\* cancelled takes the ctx.Done() case.  Nothing obliges the application to call
\* Write or Sync, the owner to cancel, or the ticker case to be taken.
Fairness ==
    /\ WF_vars(Construct)
    /\ \A e \in 1..MaxWrites :
         WF_vars(e <= Len(writes) /\ (WriteSend(e) \/ GoSend(e) \/ Enqueue(e)))
    /\ \A k \in 1..MaxOpts :
         /\ SF_vars(k <= Len(loops) /\ LoopDone(k))
         /\ WF_vars(k <= Len(loops)
                      /\ (LoopCheck(k) \/ LoopRecv(k) \/ LoopSend(k)))
    /\ \A s \in 1..MaxSyncs :
         WF_vars(s <= Len(syncs)
                  /\ (SyncCheck(s) \/ SyncRecv(s) \/ SyncSend(s)))

SpecFair ==
    Init /\ [][Next]_vars /\ Fairness


\* Construction, then With on any core: chains and siblings.
FieldLists ==
    { << 1 >>, << 2 >>, << 3, 4 >> }

WithOptLists ==
    { << >>,
      << Opt("WithoutAsyncOpt", 0, << >>, 0) >>,
      << Opt("WithQueue", 0, << >>, 2) >> }

InitWithCores ==
    InitWith({ "token" }, { << 101 >> }, WithOptLists)

NextWith ==
    \/ Construct
    \/ \E h \in 1..Len(cores) : \E f \in FieldLists : With(h, f, MaxCores)

SpecWith ==
    InitWithCores /\ [][NextWith]_vars

\* Construction, With up to MaxChain cores, and Write through any of them in
\* each delivery mode.
MaxChain ==
    3

MaxWithWrites ==
    2

CallFields ==
    { << 9 >> }

NextResolve ==
    \/ Construct
    \/ \E h \in 1..Len(cores) : \E f \in FieldLists : With(h, f, MaxChain)
    \/ \E h \in 1..Len(cores) : \E f \in CallFields :
          WriteCall(h, WarnLevel, f, MaxWithWrites)
    \/ \E e \in 1..Len(writes) : WriteSend(e)
    \/ \E e \in 1..Len(writes) : GoSend(e)
    \/ \E e \in 1..Len(writes) : Enqueue(e)

SpecResolve ==
    InitWithCores /\ [][NextResolve]_vars

\* Construction under the notification options in each delivery mode, then Write
\* at every level; in queued mode the drain loop delivers.
MaxNotifyWrites ==
    1

NotifyOptions ==
    { Opt("WithDisabledNotification", 0, << >>, 0),
      Opt("WithoutAsyncOpt", 0, << >>, 0),
      Opt("WithQueue", 0, << >>, 1) }
      \cup { Opt("WithNotificationOn", 0, u, 0) : u \in NotifySets }

InitNotify ==
    InitWith({ "token" }, { << 101, 102 >> }, SeqsUpTo(NotifyOptions, MaxOpts))

NextNotify ==
    \/ Construct
    \/ \E l \in Levels : WriteCall(1, l, << >>, MaxNotifyWrites)
    \/ \E e \in 1..Len(writes) : WriteSend(e)
    \/ \E e \in 1..Len(writes) : GoSend(e)
    \/ \E e \in 1..Len(writes) : Enqueue(e)
    \/ \E k \in 1..Len(loops) : LoopTick(k)
    \/ \E k \in 1..Len(loops) : LoopCheck(k)
    \/ \E k \in 1..Len(loops) : LoopRecv(k)
    \/ \E k \in 1..Len(loops) : LoopSend(k)

SpecNotify ==
    InitNotify /\ [][NextNotify]_vars

\* Queued mode with a queue of one or two entries and one destination: producers,
\* the drain loop, its cancellation, and Sync.
MaxQueueWrites ==
    2

QueueOptLists ==
    { << Opt("WithQueue", 0, << >>, 1) >>,
      << Opt("WithQueue", 0, << >>, 2) >> }

InitQueue ==
    InitWith({ "token" }, { << 101 >> }, QueueOptLists)

NextQueue ==
    \/ Construct
    \/ WriteCall(1, WarnLevel, << >>, MaxQueueWrites)
    \/ \E e \in 1..Len(writes) : Enqueue(e)
    \/ \E k \in 1..Len(loops) : LoopTick(k)
    \/ \E k \in 1..Len(loops) : LoopDone(k)
    \/ \E k \in 1..Len(loops) : LoopCheck(k)
    \/ \E k \in 1..Len(loops) : LoopRecv(k)
    \/ \E k \in 1..Len(loops) : LoopSend(k)
    \/ Cancel
    \/ SyncCall(1)
    \/ \E s \in 1..Len(syncs) : SyncCheck(s)
    \/ \E s \in 1..Len(syncs) : SyncRecv(s)
    \/ \E s \in 1..Len(syncs) : SyncSend(s)

SpecQueue ==
    InitQueue /\ [][NextQueue]_vars

\* Queued mode with the queue sizes 0, 1 and 2, producers and a drain loop that is
\* never cancelled.  The scheduling: a goroutine that can take its next step
\* takes it, a Write at its channel send goes through if the send stays
\* possible, and the ticker keeps firing, so a loop at its select takes the
\* ticker case.
LiveOptLists ==
    { << Opt("WithQueue", 0, << >>, 0) >>,
      << Opt("WithQueue", 0, << >>, 1) >>,
      << Opt("WithQueue", 0, << >>, 2) >> }

InitLive ==
    InitWith({ "token" }, { << 101 >> }, LiveOptLists)

NextLive ==
    \/ Construct
    \/ WriteCall(1, WarnLevel, << >>, MaxQueueWrites)
    \/ \E e \in 1..Len(writes) : Enqueue(e)
    \/ \E k \in 1..Len(loops) : LoopTick(k)
    \/ \E k \in 1..Len(loops) : LoopCheck(k)
    \/ \E k \in 1..Len(loops) : LoopRecv(k)
    \/ \E k \in 1..Len(loops) : LoopSend(k)

FairnessLive ==
    /\ WF_vars(Construct)
    /\ \A e \in 1..MaxQueueWrites :
         WF_vars(e <= Len(writes) /\ Enqueue(e))
    /\ \A k \in 1..MaxOpts :
         WF_vars(k <= Len(loops)
                  /\ (LoopTick(k) \/ LoopCheck(k) \/ LoopRecv(k) \/ LoopSend(k)))

SpecLive ==
    InitLive /\ [][NextLive]_vars /\ FairnessLive

\* Construction in each delivery mode and under the level options, then entries
\* of every level, through Check or by a direct call of Write.
MaxLevelWrites ==
    2

LevelOptLists ==
    { << >>,
      << Opt("WithoutAsyncOpt", 0, << >>, 0) >>,
      << Opt("WithQueue", 0, << >>, 1) >>,
      << Opt("WithLevel", InfoLevel, << >>, 0),
         Opt("WithoutAsyncOpt", 0, << >>, 0) >>,
      << Opt("WithStrongLevel", ErrorLevel, << >>, 0) >> }

InitLevels ==
    InitWith({ "token" }, { << 101 >> }, LevelOptLists)

NextLevels ==
    \/ Construct
    \/ \E l \in Levels : CheckedWrite(1, l, << >>, MaxLevelWrites)
    \/ \E l \in Levels : WriteCall(1, l, << >>, MaxLevelWrites)
    \/ \E e \in 1..Len(writes) : WriteSend(e)
    \/ \E e \in 1..Len(writes) : GoSend(e)
    \/ \E e \in 1..Len(writes) : Enqueue(e)
    \/ \E k \in 1..Len(loops) : LoopTick(k)
    \/ \E k \in 1..Len(loops) : LoopCheck(k)
    \/ \E k \in 1..Len(loops) : LoopRecv(k)
    \/ \E k \in 1..Len(loops) : LoopSend(k)

SpecLevels ==
    InitLevels /\ [][NextLevels]_vars

\* Construction under every order of the two mode options, then With, logging
\* and Sync through the newest handle, and the drain loop.
MaxModeCores ==
    2

MaxModeWrites ==
    1

ModeOptLists ==
    { << >>,
      << Opt("WithoutAsyncOpt", 0, << >>, 0) >>,
      << Opt("WithQueue", 0, << >>, 1) >>,
      << Opt("WithoutAsyncOpt", 0, << >>, 0), Opt("WithQueue", 0, << >>, 1) >>,
      << Opt("WithQueue", 0, << >>, 1), Opt("WithoutAsyncOpt", 0, << >>, 0) >> }

InitMode ==
    InitWith({ "token" }, { << 101 >> }, ModeOptLists)

NextMode ==
    \/ Construct
    \/ \E h \in 1..Len(cores) : With(h, << 1 >>, MaxModeCores)
    \/ CheckedWrite(Len(cores), WarnLevel, << >>, MaxModeWrites)
    \/ \E e \in 1..Len(writes) : WriteSend(e)
    \/ \E e \in 1..Len(writes) : GoSend(e)
    \/ \E e \in 1..Len(writes) : Enqueue(e)
    \/ \E k \in 1..Len(loops) : LoopTick(k)
    \/ \E k \in 1..Len(loops) : LoopCheck(k)
    \/ \E k \in 1..Len(loops) : LoopRecv(k)
    \/ \E k \in 1..Len(loops) : LoopSend(k)
    \/ SyncCall(Len(cores))
    \/ \E s \in 1..Len(syncs) : SyncCheck(s)
    \/ \E s \in 1..Len(syncs) : SyncRecv(s)
    \/ \E s \in 1..Len(syncs) : SyncSend(s)

SpecMode ==
    InitMode /\ [][NextMode]_vars

-----------------------------------------------------------------------------
(* Properties *)

HasOp(name) ==
    \E i \in 1..Len(opts) : opts[i].op = name

Built ==
    ctorPc = "returned"

Finished ==
    ctorPc \in { "returned", "failed" }

\* The chats that were handed a message of entry e, with repetitions.
SendsTo(e, chat) ==
    { j \in 1..Len(writes[e].sends) : writes[e].sends[j].chat = chat }

\* C1 (as claimed): once the delivery of an entry is over, every configured
\* destination has had exactly one send attempt, whatever the outcome of the
\* sends to the destinations before it.
C1_EveryDestinationAttempted ==
    \A e \in 1..Len(writes) :
        writes[e].sm = "done" =>
            \A i \in 1..Len(chatIDs) : Cardinality(SendsTo(e, chatIDs[i])) = 1

\* C2: a Write that has returned in sync mode has finished its sendMessage and
\* returned an error exactly when one of its sends failed; a Write that has
\* returned in async or queued mode returned nil, whatever the sends did.
C2_WriteReturnValue ==
    \A e \in 1..Len(writes) :
        writes[e].pc = "returned" =>
            /\ writes[e].mode = "sync" =>
                 /\ writes[e].sm = "done"
                 /\ writes[e].calls = 1
                 /\ writes[e].ret \in { "nil", "err" }
                 /\ writes[e].ret = "err" <=>
                      \E j \in 1..Len(writes[e].sends) : ~writes[e].sends[j].ok
            /\ writes[e].mode \in { "async", "queued" } => writes[e].ret = "nil"

\* C2 witness: a sync Write returned an error after its second send failed.
C2_Witness ==
    \E e \in 1..Len(writes) :
        /\ writes[e].mode = "sync"
        /\ writes[e].pc = "returned"
        /\ writes[e].ret = "err"
        /\ Len(writes[e].sends) = 2
        /\ writes[e].sends[1].ok

\* C3 (as claimed): when a Sync in queued mode has returned and no producer has
\* enqueued since it was called, every entry enqueued before the call has had
\* exactly one delivery, finished, and the queue is empty; in the other modes
\* Sync returns nil at once.
C3_FlushDeliversAll ==
    \A s \in 1..Len(syncs) :
        syncs[s].pc = "returned" =>
            IF syncs[s].queue
            THEN syncs[s].quiet =>
                   /\ \A e \in syncs[s].before :
                        writes[e].calls = 1 /\ writes[e].sm = "done"
                   /\ chans[syncs[s].ch].buf = << >>
            ELSE syncs[s].ret = "nil"

\* C4 (as claimed): every core shows the inherited fields it was made with, and
\* a derived core was made with its parent's fields followed by the supplied ones.
C4_InheritedFieldsNeverChange ==
    \A h \in 1..Len(cores) :
        /\ SliceRead(arrays, cores[h].inheritedFields) = createdFields[h].fields
        /\ h > 1 => createdFields[h].fields =
                      createdFields[h].before \o createdFields[h].supplied

\* Whether core h was made by With from a core made by With from the first core.
SecondDerived(h) ==
    /\ h > 1
    /\ createdFields[h].parent > 1
    /\ createdFields[createdFields[h].parent].parent = 1

SeverityOrder ==
    << DebugLevel, InfoLevel, WarnLevel, ErrorLevel, FatalLevel, PanicLevel >>

RankOf(l) ==
    CHOOSE i \in 1..Len(SeverityOrder) : SeverityOrder[i] = l

\* C6 (as claimed): a router built with WithLevel(F) as its only option enables
\* exactly the severities at or above F.
C6_ThresholdEnables ==
    (Built /\ Len(opts) = 1 /\ opts[1].op = "WithLevel") =>
        \A l \in Levels : Enabled(1, l) <=> RankOf(l) >= RankOf(opts[1].l)

\* C7 (as claimed): a router built with WithStrongLevel(E) as its last level
\* option, alone or after a WithLevel, enables exactly E.
C7_ExactEnables ==
    (/\ Built
     /\ Len(opts) >= 1
     /\ opts[Len(opts)].op = "WithStrongLevel"
     /\ \A i \in 1..(Len(opts) - 1) : opts[i].op = "WithLevel") =>
        \A l \in Levels : Enabled(1, l) <=> l = opts[Len(opts)].l

\* The levels of the last WithNotificationOn of the option list.
LastNotifyOn ==
    LET i == CHOOSE j \in 1..Len(opts) :
                 /\ opts[j].op = "WithNotificationOn"
                 /\ \A k \in (j+1)..Len(opts) : opts[k].op # "WithNotificationOn"
    IN  { opts[i].levels[n] : n \in 1..Len(opts[i].levels) }

\* C8: every message sent notifies when no notification option was given, and
\* with WithNotificationOn(U) it notifies exactly when the entry's level is in U,
\* wherever WithDisabledNotification stands in the option list.
C8_NotifyFlag ==
    \A e \in 1..Len(writes) : \A j \in 1..Len(writes[e].sends) :
        /\ (~HasOp("WithNotificationOn") /\ ~HasOp("WithDisabledNotification")) =>
              writes[e].sends[j].notify
        /\ HasOp("WithNotificationOn") =>
              (writes[e].sends[j].notify <=> writes[e].level \in LastNotifyOn)

\* C8 witness: with WithNotificationOn(U) before WithDisabledNotification, both
\* messages of an entry whose level is in U were sent and notify.
C8_Witness ==
    /\ Len(opts) = 2
    /\ opts[1].op = "WithNotificationOn"
    /\ opts[2].op = "WithDisabledNotification"
    /\ \E e \in 1..Len(writes) :
         /\ writes[e].level \in LastNotifyOn
         /\ Len(writes[e].sends) = 2
         /\ writes[e].sends[1].notify
         /\ writes[e].sends[2].notify

\* C9: with an empty token or an empty destination list NewTelegramCore only ever
\* fails, with the error of the first failing check and no router, and nothing an
\* option does has happened: no option applied, no core, no client, no channel, no
\* drain loop.
C9_ArgumentsCheckedFirst ==
    (botAccessToken = "" \/ Len(chatIDs) = 0) =>
        /\ ctorPc \in { "call", "failed" }
        /\ ctorPc = "failed" =>
             ctorRet = [ core |-> 0,
                         err  |-> IF botAccessToken = "" THEN "ErrBotAccessToken"
                                  ELSE "ErrChatIDs" ]
        /\ optIdx = 1
        /\ cores = << >>
        /\ telegramClient = NoClient
        /\ chans = << >>
        /\ loops = << >>

\* C9 witness: construction has failed on an empty destination list although the
\* option list starts with WithQueue.
C9_Witness ==
    /\ ctorPc = "failed"
    /\ botAccessToken # ""
    /\ Len(chatIDs) = 0
    /\ Len(opts) = 2
    /\ opts[1].op = "WithQueue"
    /\ ctorRet.err = "ErrChatIDs"

\* C10 (as claimed): with valid arguments and a reachable bot API, every option
\* list holding both WithQueue and WithoutAsyncOpt ends in ErrAsyncOpt and no
\* router.
C10_QueueAndSyncRejected ==
    (/\ Finished
     /\ ctorRet.err # "ErrNewBotAPI"
     /\ botAccessToken # ""
     /\ Len(chatIDs) > 0
     /\ HasOp("WithQueue")
     /\ HasOp("WithoutAsyncOpt")) =>
        ctorRet = [ core |-> 0, err |-> "ErrAsyncOpt" ]


\* C15: neither the drain loop nor a Sync is ever blocked on the receive while the
\* queue is empty: a drainer at the receive always has an entry to take.
BlockedOnEmpty(d) ==
    d.pc = "recv" /\ chans[d.ch].buf = << >>

C15_NeverWaitsForProducer ==
    /\ \A k \in 1..Len(loops) : ~BlockedOnEmpty(loops[k])
    /\ \A s \in 1..Len(syncs) : ~BlockedOnEmpty(syncs[s])

\* C11: under fair scheduling, once the context is cancelled every drain loop
\* eventually stops, and by then every entry that was in the queue when its
\* final drain began has had its delivery attempt.
FinalDrainDone(k) ==
    /\ k <= Len(loops)
    /\ loops[k].pc = "stopped"
    /\ \A e \in loops[k].pending : writes[e].calls >= 1

C11_FinalDrainThenStop ==
    \A k \in 1..MaxOpts :
      (k <= Len(loops) /\ ctxDone) ~> FinalDrainDone(k)

\* C12: in queued mode Write only appends its entry to the bounded queue.  The
\* queue never holds more entries than its capacity; a Write at a full queue
\* waits and has done nothing yet; an entry whose Write has returned is in the
\* queue exactly once until a drainer takes it; the channel send goes through
\* only when there is room and puts the entry at the back; and the send to
\* Telegram of a queued entry is made by a drainer holding it, never by Write.
TimesIn(q, e) ==
    Cardinality({ i \in 1..Len(q) : q[i] = e })

C12_State ==
    /\ \A c \in 1..Len(chans) : Len(chans[c].buf) <= chans[c].cap
    /\ \A e \in 1..Len(writes) :
         writes[e].mode = "queued" =>
           LET w == writes[e]
               q == chans[w.ch].buf
           IN  /\ w.pc \in { "enqueue", "returned" }
               /\ w.pc = "enqueue" =>
                    /\ w.sm = "none" /\ w.calls = 0 /\ w.sends = << >>
                    /\ w.ret = "none"
                    /\ TimesIn(q, e) = 0
               /\ w.pc = "returned" =>
                    /\ w.ret = "nil"
                    /\ \/ w.sm = "queued" /\ TimesIn(q, e) = 1 /\ w.calls = 0
                       \/ w.sm \in { "dequeued", "done" } /\ TimesIn(q, e) = 0

C12_Step ==
    \A e \in 1..Len(writes) :
      writes[e].mode = "queued" =>
        /\ (writes[e].pc = "enqueue" /\ writes'[e].pc = "returned") =>
             /\ Len(chans[writes[e].ch].buf) < chans[writes[e].ch].cap
             /\ chans'[writes[e].ch].buf = Append(chans[writes[e].ch].buf, e)
        /\ writes'[e].calls > writes[e].calls =>
             /\ writes[e].pc = "returned"
             /\ \/ \E k \in 1..Len(loops) :
                     loops[k].pc = "send" /\ loops[k].cur = e
                \/ \E s \in 1..Len(syncs) :
                     syncs[s].pc = "send" /\ syncs[s].cur = e

C12_QueuedWriteOnlyEnqueues ==
    []C12_State /\ [][C12_Step]_vars

\* A Write is waiting at a full queue behind an entry another Write put there.
C12_Witness ==
    \E e \in 1..Len(writes) :
      /\ writes[e].pc = "enqueue"
      /\ chans[writes[e].ch].cap >= 1
      /\ Len(chans[writes[e].ch].buf) = chans[writes[e].ch].cap

\* C13: queued entries reach the transport in the order of their enqueueing: when
\* the delivery attempt of an entry has started, so has that of every entry
\* enqueued on the same queue before it; and a drain (here: a Sync that has
\* returned) during which no producer enqueued leaves the queue empty.
EnqueuedBefore(e1, e2) ==
    /\ writes[e1].mode = "queued" /\ writes[e2].mode = "queued"
    /\ writes[e1].ch = writes[e2].ch
    /\ writes[e1].enqNo > 0
    /\ writes[e1].enqNo < writes[e2].enqNo

C13_DeliveredInEnqueueOrder ==
    /\ \A e1, e2 \in 1..Len(writes) :
         (EnqueuedBefore(e1, e2) /\ writes[e2].calls >= 1) =>
            writes[e1].calls >= 1
    /\ \A s \in 1..Len(syncs) :
         (syncs[s].queue /\ syncs[s].pc = "returned" /\ syncs[s].quiet) =>
            chans[syncs[s].ch].buf = << >>

\* C14: no entry of a level that is not enabled is delivered: Check does not add
\* the core for it, and a Write called with it sends nothing, spawns nothing
\* and enqueues nothing.
Handled(e) ==
    \/ writes[e].calls >= 1
    \/ writes[e].sm # "none"
    \/ writes[e].enqNo > 0
    \/ writes[e].pc = "sending"

C16_State ==
    \A e \in 1..Len(writes) :
      /\ writes[e].calls <= 1
      /\ writes[e].sm \in { "dequeued", "done" } =>
           \A c \in 1..Len(chans) : TimesIn(chans[c].buf, e) = 0

SentAndGoesOn(d, dNext) ==
    (d.pc = "send" /\ dNext.pc # "send") =>
       /\ dNext.pc = "check"
       /\ writes'[d.cur].calls = 1
       /\ writes'[d.cur].sm = "done"

EndsOnEmpty(d, dNext) ==
    (d.pc = "check" /\ dNext.pc # "check" /\ dNext.pc # "recv") =>
       chans[d.ch].buf = << >>

C16_Step ==
    /\ \A k \in 1..Len(loops) :
         /\ SentAndGoesOn(loops[k], loops'[k])
         /\ EndsOnEmpty(loops[k], loops'[k])
         /\ (loops[k].pc # "stopped" /\ loops'[k].pc = "stopped") =>
              ctxDone /\ loops[k].final /\ loops[k].pc = "check"
    /\ \A s \in 1..Len(syncs) :
         /\ SentAndGoesOn(syncs[s], syncs'[s])
         /\ EndsOnEmpty(syncs[s], syncs'[s])

C16_FailedSendGoesOn ==
    []C16_State /\ [][C16_Step]_vars

\* The loop alone has sent two entries that were both in the queue, the send of
\* the first failed, and the loop is back at its select.
C16_Witness ==
    /\ syncs = << >>
    /\ Len(loops) = 1 /\ loops[1].pc = "select"
    /\ \E e1, e2 \in 1..Len(writes) :
         /\ EnqueuedBefore(e1, e2)
         /\ chans[writes[e1].ch].cap = 2
         /\ writes[e1].smErr /\ writes[e1].calls = 1
         /\ writes[e2].sm = "done" /\ writes[e2].calls = 1

\* C17: a router that NewTelegramCore has returned has had exactly one drain loop
\* started for it if it is in queued mode, and none otherwise, whatever its
\* option list.
C17_OneLoopIffQueued ==
    Built => Len(loops) = IF cores[1].queue THEN 1 ELSE 0

\* C20: when an option makes NewTelegramCore fail, no router is returned and no
\* drain loop that an earlier option of the list started is left running.
FailedByOption ==
    ctorPc = "failed" /\ ctorRet.err = "ErrAsyncOpt"

C20_FailedOptionLeavesNothing ==
    FailedByOption =>
       /\ ctorRet.core = 0
       /\ \A k \in 1..Len(loops) : loops[k].pc = "stopped"

\* C18: no handle ever has the async flag and the queue flag both set, while the
\* options are applied or later; a handle made by With has the mode, the
\* destinations, the queue and the flush interval of its parent; and once
\* NewTelegramCore has returned no step changes the mode, the queue or the flush
\* interval of a handle, the destination list, or the capacity of a queue.
\* (The handles share the one telegramClient, and with it the destinations.)
ModeFields(c) ==
    << c.async, c.queue, c.entriesChan, c.intervalQueue >>

C18_State ==
    /\ \A h \in 1..Len(cores) : ~(cores[h].async /\ cores[h].queue)
    /\ \A h \in 2..Len(cores) :
         ModeFields(cores[h]) = ModeFields(cores[createdFields[h].parent])

C18_Step ==
    Built =>
      /\ \A h \in 1..Len(cores) : ModeFields(cores'[h]) = ModeFields(cores[h])
      /\ telegramClient'.chatIDs = telegramClient.chatIDs
      /\ Len(chans') = Len(chans)
      /\ \A c \in 1..Len(chans) : chans'[c].cap = chans[c].cap

C18_ModeFixed ==
    []C18_State /\ [][C18_Step]_vars

\* A queued router: a handle derived from it has logged an entry that the loop
\* delivered, and a Sync through the derived handle has returned.
C18_Witness ==
    /\ Built /\ Len(cores) >= 2 /\ cores[2].queue /\ ~cores[2].async
    /\ \E e \in 1..Len(writes) : writes[e].h = 2 /\ writes[e].calls = 1
    /\ \E s \in 1..Len(syncs) : syncs[s].h = 2 /\ syncs[s].pc = "returned"

\* C19: under fair scheduling, with the loop running and its ticker firing,
\* every Write in queued mode eventually returns and its entry eventually has
\* its delivery attempt, whatever the queue size given to WithQueue, 0 included.
WriteDelivered(e) ==
    /\ e <= Len(writes)
    /\ writes[e].pc = "returned"
    /\ writes[e].calls >= 1

C19_EveryWriteDelivered ==
    \A e \in 1..MaxQueueWrites :
      (e <= Len(writes)) ~> WriteDelivered(e)

=============================================================================
